---- MODULE Spec2Model ----
(***************************************************************************)
(* A model of src/main.py: the PDF reader tool (read_pdf), its temporary   *)
(* artifact directory TEMP_DIR, and the start-up clean-up                  *)
(* (cleanup_old_files).  The artifact directory outlives the process, so   *)
(* the model follows it across process starts.                             *)
(*                                                                         *)
(* Python values are modelled as follows.  Optional[T] is a sequence of    *)
(* at most one element (None is <<>>, a value v is <<v>>).  A dict is the  *)
(* sequence of its <<key, value>> items in insertion order.  str is a TLA+ *)
(* string; slicing is SubSeq.  The PyPDF2 reader, the clock, uuid4 and the *)
(* file system's faults are the environment: their outcomes are inputs.    *)
(***************************************************************************)
EXTENDS Integers, Sequences, FiniteSets, TLC

VARIABLES now, fs, writes, nreq, nstart, op, req, result, events, log

vars == <<now, fs, writes, nreq, nstart, op, req, result, events, log>>

(***************************************************************************)
(* Bounds of the model.                                                    *)
(***************************************************************************)
MaxRequests == 2
MaxRestarts == 1
MaxTicks == 2
MaxTotalPages == 2
MaxPagesLen == 2

(***************************************************************************)
(* Program constants.                                                      *)
(***************************************************************************)
DefaultMaxAgeHours == 24
SecondsPerHour == 3600
SessionIdLen == 8

TEMP_DIR == "/tmp/pdf_reader_extracts"

\* The clock advances in steps of the default retention window, so that ages
\* below, equal to and above the window all occur.
TickSeconds == DefaultMaxAgeHours * SecondsPerHour

None == <<>>
Some(v) == <<v>>

(***************************************************************************)
(* Python helpers: str, dict, os.path.                                     *)
(***************************************************************************)
CharAt(s, i) == SubSeq(s, i, i)

SetMax(S) == CHOOSE m \in S : \A x \in S : x <= m

\* str.rfind(c) + 1: the 1-based position of the last c in s, 0 when absent.
RFind(s, c) ==
    LET I == {i \in 1..Len(s) : CharAt(s, i) = c}
    IN  IF I = {} THEN 0 ELSE SetMax(I)

StartsWith(s, prefix) ==
    Len(s) >= Len(prefix) /\ SubSeq(s, 1, Len(prefix)) = prefix

EndsWith(s, suffix) ==
    Len(s) >= Len(suffix) /\ SubSeq(s, Len(s) - Len(suffix) + 1, Len(s)) = suffix

basename(p) == SubSeq(p, RFind(p, "/") + 1, Len(p))

\* os.path.splitext(p)[0]: the extension starts at the last dot of the last
\* path component, leading dots of that component not counted.
splitext_root(p) ==
    LET sep == RFind(p, "/")
        dot == RFind(p, ".")
    IN  IF dot > sep /\ \E i \in (sep + 1)..(dot - 1) : CharAt(p, i) # "."
        THEN SubSeq(p, 1, dot - 1)
        ELSE p

path_join(dir, name) == dir \o "/" \o name

DictKeys(d) == [i \in 1..Len(d) |-> d[i][1]]

DictHas(d, k) == \E i \in 1..Len(d) : d[i][1] = k

\* d[k] = v: an existing key keeps its position, a new key goes last.
DictSet(d, k, v) ==
    IF DictHas(d, k)
    THEN [i \in 1..Len(d) |-> IF d[i][1] = k THEN <<k, v>> ELSE d[i]]
    ELSE Append(d, <<k, v>>)

RECURSIVE FilterSeq(_, _, _)
\* [x for x in s if lo <= x <= hi]
FilterSeq(s, lo, hi) ==
    IF s = <<>> THEN <<>>
    ELSE LET rest == FilterSeq(Tail(s), lo, hi)
         IN  IF lo <= Head(s) /\ Head(s) <= hi THEN <<Head(s)>> \o rest ELSE rest

Range1(n) == [i \in 1..n |-> i]

(***************************************************************************)
(* The environment: the documents on disk, as PyPDF2 presents them.        *)
(***************************************************************************)
Documents ==
    [p \in {"/in/a.pdf", "/old/a.pdf", "/in/e.pdf"} |->
       CASE p = "/in/a.pdf" ->
              [is_encrypted |-> FALSE, user_password |-> "",
               metadata |-> << <<"/Title", "A">>, <<"Custom", "x">> >>,
               pages |-> [i \in 1..MaxTotalPages |-> "a" \o ToString(i)]]
         [] p = "/old/a.pdf" ->
              [is_encrypted |-> TRUE, user_password |-> "pw",
               metadata |-> <<>>,
               pages |-> <<"s1">>]
         [] p = "/in/e.pdf" ->
              [is_encrypted |-> FALSE, user_password |-> "",
               metadata |-> << <<"/Title", "E">>, <<"Title", "E2">> >>,
               pages |-> <<>>]]

FilePaths == DOMAIN Documents \cup {"/in/missing.pdf"}

Passwords == {None, Some("pw"), Some("bad")}

RECURSIVE SeqsUpTo(_, _)
SeqsUpTo(S, n) ==
    IF n = 0 THEN {<<>>}
    ELSE LET shorter == SeqsUpTo(S, n - 1)
         IN  shorter \cup {Append(s, x) : s \in shorter, x \in S}

PageNumbers == 0..(MaxTotalPages + 1)

PageLists == {None} \cup {Some(s) : s \in SeqsUpTo(PageNumbers, MaxPagesLen)}

\* str(uuid.uuid4()): two of the draws agree on their first eight characters.
UUIDs == {"3f2a9c1e-5b7d-4c63-9a10-0d2e8f6b1a47",
          "3f2a9c1e-91c4-4f0a-b7e2-6c5d4e3f2a1b",
          "d81b07e6-2a3c-4e5f-8091-a2b3c4d5e6f7"}

\* Where an exception is raised during read_pdf: nowhere, or at one call.
ReadFaults ==
    [site : {"none"}, at : {0}]
      \cup [site : {"open", "decrypt", "metadata", "pages", "meta_open", "meta_dump"},
            at : {0}]
      \cup [site : {"extract_text", "page_open", "page_write"}, at : 1..MaxPagesLen]

NoFault == [site |-> "none", at |-> 0]

\* The narrower inputs of the directory's life, which is about the calls
\* that reach staging: two documents of the same base name, asked for with
\* the password of the encrypted one, page lists within the larger document,
\* and a fault in the writing of the first page file only.
StagedPaths == {"/in/a.pdf", "/old/a.pdf"}

StagedPasswords == {Some("pw")}

StagedPageLists ==
    {None} \cup {Some(s) : s \in SeqsUpTo(1..MaxTotalPages, MaxPagesLen) \ {<<>>}}

StagingFaults ==
    {NoFault, [site |-> "page_write", at |-> 1]}

Raises(fault, site, at) == fault.site = site /\ fault.at = at

ExceptionText(fault) == "fault in " \o fault.site

Ev(name, arg) == [op |-> name, arg |-> arg]

NoCall == [call |-> "none"]

(***************************************************************************)
(* The file system under TEMP_DIR.  fs maps each existing path to its      *)
(* modification time and content; writes counts, per path, how often the   *)
(* path has been opened for writing.                                       *)
(***************************************************************************)
EmptyContent == [text |-> "", json |-> None]

TextContent(text) == [text |-> text, json |-> None]

JsonContent(record) == [text |-> "", json |-> Some(record)]

\* open(path, 'w'): the file is created or truncated and its mtime set.
OpenForWrite(files, path, t) ==
    (path :> [mtime |-> t, content |-> EmptyContent]) @@ files

\* The write and close that follow open(path, 'w').
WriteContent(files, path, content, t) ==
    (path :> [mtime |-> t, content |-> content]) @@ files

CountWrite(w, path) ==
    IF path \in DOMAIN w THEN [w EXCEPT ![path] = @ + 1] ELSE (path :> 1) @@ w

(***************************************************************************)
(* read_pdf, lines 54-167.                                                 *)
(***************************************************************************)
NotFoundResult(file_path) ==
    [success |-> FALSE, error |-> "File not found: " \o file_path]

PasswordRequiredResult ==
    [success |-> FALSE,
     error |-> "This PDF is password-protected. Please provide a password.",
     is_encrypted |-> TRUE,
     password_required |-> TRUE]

PasswordRejectedResult ==
    [success |-> FALSE,
     error |-> "Incorrect password or PDF could not be decrypted",
     is_encrypted |-> TRUE,
     password_required |-> TRUE]

ExceptionResultPartial(e) ==
    [success |-> FALSE, error |-> "Error processing PDF: " \o e,
     extracted_pages |-> <<>>, content_files |-> <<>>]

\* Lines 165-167.
ExceptionResult(e) ==
    [success |-> FALSE, error |-> "Error processing PDF: " \o e]

\* PdfReader.decrypt: 0 when the password is not accepted (falsy), 1 when it is.
decrypt(pdf_reader, password) ==
    IF password = pdf_reader.user_password THEN 1 ELSE 0

\* Line 82-83: an encrypted document asked for without a password.
PasswordMissing(is_encrypted, password) == is_encrypted /\ password = None

CallsDecryptWhenever(is_encrypted, password) == password # None

\* Lines 82-90: decrypt is called for an encrypted document, once the check
\* for a missing password has passed.
CallsDecrypt(is_encrypted, password) == is_encrypted /\ password # None

DecryptFailedIgnored(is_encrypted, decrypt_success) == FALSE

\* Line 93.
DecryptFailed(is_encrypted, decrypt_success) == is_encrypted /\ decrypt_success = 0

RECURSIVE NormaliseItems(_, _)
\* Lines 104-108: the loop over pdf_reader.metadata.items().
NormaliseItems(items, metadata) ==
    IF items = <<>> THEN metadata
    ELSE LET key == Head(items)[1]
             value == Head(items)[2]
         IN  NormaliseItems(Tail(items),
                IF StartsWith(key, "/")
                THEN DictSet(metadata, SubSeq(key, 2, Len(key)), value)
                ELSE DictSet(metadata, key, value))

\* Lines 102-108.
ExtractMetadata(pdf_reader) ==
    IF pdf_reader.metadata # <<>> THEN NormaliseItems(pdf_reader.metadata, <<>>) ELSE <<>>

\* Line 112: pages or list(range(1, total_pages + 1)).
PagesToExtract(pages, total_pages) ==
    IF pages = None \/ pages[1] = <<>> THEN Range1(total_pages) ELSE pages[1]

ZeroIndexedPagesFromZero(pages_to_extract, total_pages) ==
    LET kept == FilterSeq(pages_to_extract, 0, total_pages - 1)
    IN  [i \in 1..Len(kept) |-> kept[i] - 1]

\* Lines 115-117.
ZeroIndexedPages(pages_to_extract, total_pages) ==
    LET kept == FilterSeq(pages_to_extract, 1, total_pages)
    IN  [i \in 1..Len(kept) |-> kept[i] - 1]

\* Line 120: str(uuid.uuid4())[:8].
SessionId(uuid) == SubSeq(uuid, 1, SessionIdLen)

\* Line 121.
PdfName(file_path) == splitext_root(basename(file_path))

\* Line 124.
MetadataFilePath(pdf_name, session_id) ==
    path_join(TEMP_DIR, pdf_name \o "_" \o session_id \o "_metadata.json")

\* Lines 142-144.
PageFilePath(pdf_name, session_id, page_number) ==
    path_join(TEMP_DIR,
              pdf_name \o "_" \o session_id \o "_page_" \o ToString(page_number + 1) \o ".txt")

\* Lines 126-133: the record dumped into the metadata file.
MetadataRecord(file_path, total_pages, is_encrypted, metadata, session_id, zero_indexed_pages) ==
    [filename |-> basename(file_path),
     total_pages |-> total_pages,
     is_encrypted |-> is_encrypted,
     metadata |-> metadata,
     session_id |-> session_id,
     extracted_pages |-> [i \in 1..Len(zero_indexed_pages) |-> zero_indexed_pages[i] + 1]]

\* Lines 153-163.
SuccessResult(is_encrypted, total_pages, content_files, metadata, metadata_file_path, session_id) ==
    [success |-> TRUE,
     is_encrypted |-> is_encrypted,
     total_pages |-> total_pages,
     extracted_pages |-> DictKeys(content_files),
     metadata |-> metadata,
     metadata_file |-> metadata_file_path,
     content_files |-> content_files,
     session_id |-> session_id,
     temp_dir |-> TEMP_DIR]

\* The state of one call: the directory, the write counts, the calls made so
\* far, and how the call has ended (ret: a returned dict; exc: a raised
\* exception's text), if it has.
Ctx(files, w) ==
    [fs |-> files, writes |-> w, events |-> <<>>, content_files |-> <<>>,
     ret |-> None, exc |-> None]

Did(c, name, arg) == [c EXCEPT !.events = Append(@, Ev(name, arg))]

Return(c, value) == [c EXCEPT !.ret = Some(value)]

Raise(c, fault) == [c EXCEPT !.exc = Some(ExceptionText(fault))]

\* Lines 138-151: one iteration of the page loop, at position k of
\* zero_indexed_pages.
PageStep(c, k, page_number, pdf_reader, pdf_name, session_id, fault, t) ==
    LET c1 == Did(c, "extract_text", ToString(page_number + 1))
        text == pdf_reader.pages[page_number + 1]
        page_file_path == PageFilePath(pdf_name, session_id, page_number)
        c2 == [Did(c1, "write", page_file_path) EXCEPT
                 !.fs = OpenForWrite(c1.fs, page_file_path, t),
                 !.writes = CountWrite(c1.writes, page_file_path)]
        c3 == [c2 EXCEPT
                 !.fs = WriteContent(c2.fs, page_file_path, TextContent(text), t),
                 !.content_files = DictSet(@, page_number + 1, page_file_path)]
    IN  IF Raises(fault, "extract_text", k) THEN Raise(c1, fault)
        ELSE IF Raises(fault, "page_open", k) THEN Raise(c1, fault)
        ELSE IF Raises(fault, "page_write", k) THEN Raise(c2, fault)
        ELSE c3

RECURSIVE PageLoop(_, _, _, _, _, _, _, _)
\* Lines 137-151: for page_number in zero_indexed_pages.
PageLoop(c, k, zero_indexed_pages, pdf_reader, pdf_name, session_id, fault, t) ==
    IF k > Len(zero_indexed_pages) \/ c.exc # None THEN c
    ELSE PageLoop(PageStep(c, k, zero_indexed_pages[k], pdf_reader, pdf_name,
                           session_id, fault, t),
                  k + 1, zero_indexed_pages, pdf_reader, pdf_name, session_id, fault, t)

\* Lines 119-163: the session, the metadata file, the page files, the result.
Stage(c, file_path, pages, pdf_reader, is_encrypted, metadata, fault, uuid, t) ==
    LET total_pages == Len(pdf_reader.pages)
        pages_to_extract == PagesToExtract(pages, total_pages)
        zero_indexed_pages == ZeroIndexedPages(pages_to_extract, total_pages)
        session_id == SessionId(uuid)
        pdf_name == PdfName(file_path)
        metadata_file_path == MetadataFilePath(pdf_name, session_id)
        record == MetadataRecord(file_path, total_pages, is_encrypted, metadata,
                                 session_id, zero_indexed_pages)
        c1 == Did(c, "len_pages", ToString(total_pages))
        c2 == [Did(c1, "write", metadata_file_path) EXCEPT
                 !.fs = OpenForWrite(c1.fs, metadata_file_path, t),
                 !.writes = CountWrite(c1.writes, metadata_file_path)]
        c3 == [c2 EXCEPT
                 !.fs = WriteContent(c2.fs, metadata_file_path, JsonContent(record), t)]
        c4 == PageLoop(c3, 1, zero_indexed_pages, pdf_reader, pdf_name, session_id, fault, t)
    IN  IF Raises(fault, "pages", 0) THEN Raise(c1, fault)
        ELSE IF Raises(fault, "meta_open", 0) THEN Raise(c1, fault)
        ELSE IF Raises(fault, "meta_dump", 0) THEN Raise(c2, fault)
        ELSE IF c4.exc # None THEN c4
        ELSE Return(c4, SuccessResult(is_encrypted, total_pages, c4.content_files,
                                      metadata, metadata_file_path, session_id))

\* Lines 101-108, then the rest of the body.
AfterGate(c, file_path, pages, pdf_reader, is_encrypted, fault, uuid, t) ==
    LET c1 == Did(c, "metadata", "")
        metadata == ExtractMetadata(pdf_reader)
    IN  IF Raises(fault, "metadata", 0) THEN Raise(c1, fault)
        ELSE Stage(c1, file_path, pages, pdf_reader, is_encrypted, metadata, fault, uuid, t)

\* Lines 74-167: the body of the try statement.
TryBody(c, file_path, password, pages, fault, uuid, t) ==
    LET c1 == Did(c, "open", file_path)
        pdf_reader == Documents[file_path]
        is_encrypted == pdf_reader.is_encrypted
        c2 == Did(c1, "is_encrypted", ToString(is_encrypted))
        calls == CallsDecrypt(is_encrypted, password)
        decrypt_success == IF calls THEN decrypt(pdf_reader, password[1]) ELSE 1
        c3 == IF ~calls THEN c2
              ELSE IF Raises(fault, "decrypt", 0) THEN Did(c2, "decrypt", "raised")
              ELSE Did(c2, "decrypt", ToString(decrypt_success))
    IN  IF Raises(fault, "open", 0) THEN Raise(c1, fault)
        ELSE IF PasswordMissing(is_encrypted, password) THEN Return(c2, PasswordRequiredResult)
        ELSE IF calls /\ Raises(fault, "decrypt", 0) THEN Raise(c3, fault)
        ELSE IF DecryptFailed(is_encrypted, decrypt_success)
             THEN Return(c3, PasswordRejectedResult)
        ELSE AfterGate(c3, file_path, pages, pdf_reader, is_encrypted, fault, uuid, t)

\* Line 70: os.path.exists(file_path).
Exists(file_path) == file_path \in DOMAIN Documents

\* read_pdf: what the call returns, logs and leaves in the directory.
read_pdf(file_path, password, pages, fault, uuid, files, w, t) ==
    IF ~Exists(file_path)
    THEN [result |-> NotFoundResult(file_path), fs |-> files, writes |-> w,
          events |-> <<>>, log |-> <<>>]
    ELSE LET c == TryBody(Ctx(files, w), file_path, password, pages, fault, uuid, t)
         IN  IF c.exc # None
             THEN [result |-> ExceptionResult(c.exc[1]), fs |-> c.fs, writes |-> c.writes,
                   events |-> Append(c.events, Ev("raise", c.exc[1])),
                   log |-> <<"Error processing PDF: " \o c.exc[1]>>]
             ELSE [result |-> c.ret[1], fs |-> c.fs, writes |-> c.writes,
                   events |-> c.events, log |-> <<>>]

(***************************************************************************)
(* cleanup_old_files, lines 26-43.                                         *)
(***************************************************************************)
\* Path(TEMP_DIR).glob("*.txt"): the entries of the directory named *.txt.
TxtFiles(files) == {p \in DOMAIN files : EndsWith(basename(p), ".txt")}

Unlink(files, path) == [p \in DOMAIN files \ {path} |-> files[p]]

RECURSIVE GlobOrders(_)
\* Line 38: glob yields the files in the order the file system lists them,
\* which may be any order.
GlobOrders(S) ==
    IF S = {} THEN {<<>>}
    ELSE UNION {{<<x>> \o rest : rest \in GlobOrders(S \ {x})} : x \in S}

\* Where a sweep over n files may meet an exception: nowhere, in glob, or in
\* the stat or the unlink of the file at one position of the order.
SweepFaults(n) ==
    {[site |-> s, at |-> 0] : s \in {"none", "glob"}}
      \cup {[site |-> s, at |-> k] : s \in {"stat", "unlink"}, k \in 1..n}

\* The runs of the sweep: the order in which glob yields the files, and
\* where an exception is raised.
SweepRuns(S) ==
    {[order |-> o, fault |-> f] : o \in GlobOrders(S), f \in SweepFaults(Cardinality(S))}

\* Line 39.
IsOld(current_time, st_mtime, max_age_seconds) ==
    current_time - st_mtime > max_age_seconds

RECURSIVE SweepLoop(_, _, _, _, _, _)
\* Lines 38-41: the loop, from position k of the order on.  c holds the
\* directory, the log and the exception raised, if any.
SweepLoop(c, k, order, fault, current_time, max_age_seconds) ==
    IF k > Len(order) THEN c
    ELSE LET file_path == order[k]
             logged == [c EXCEPT !.log = Append(@, "Cleaning up old file: " \o file_path)]
             removed == [logged EXCEPT !.fs = Unlink(@, file_path)]
         IN  IF Raises(fault, "stat", k) THEN [c EXCEPT !.exc = Some(ExceptionText(fault))]
             ELSE IF IsOld(current_time, c.fs[file_path].mtime, max_age_seconds)
                  THEN IF Raises(fault, "unlink", k)
                       THEN [logged EXCEPT !.exc = Some(ExceptionText(fault))]
                       ELSE SweepLoop(removed, k + 1, order, fault, current_time,
                                      max_age_seconds)
             ELSE SweepLoop(c, k + 1, order, fault, current_time, max_age_seconds)

\* cleanup_old_files(max_age_hours): the directory and the log it leaves.
cleanup_old_files(max_age_hours, files, order, fault, t) ==
    LET current_time == t
        max_age_seconds == max_age_hours * SecondsPerHour
        c0 == [fs |-> files, log |-> <<>>, exc |-> None]
        c == IF Raises(fault, "glob", 0)
             THEN [c0 EXCEPT !.exc = Some(ExceptionText(fault))]
             ELSE SweepLoop(c0, 1, order, fault, current_time, max_age_seconds)
    IN  IF c.exc # None
        THEN [fs |-> c.fs, log |-> Append(c.log, "Error cleaning up old files: " \o c.exc[1])]
        ELSE [fs |-> c.fs, log |-> c.log]

(***************************************************************************)
(* The state machine.                                                      *)
(***************************************************************************)
EmptyDir == [p \in {} |-> 0]

\* The first start of the process, on an empty TEMP_DIR.
Init ==
    /\ now = 0
    /\ fs = EmptyDir
    /\ writes = EmptyDir
    /\ nreq = 0
    /\ nstart = 0
    /\ op = "startup"
    /\ req = NoCall
    /\ result = NoCall
    /\ events = <<>>
    /\ log = <<>>

\* What one call of read_pdf makes of the state.
Call(file_path, password, pages, fault, uuid) ==
    LET out == read_pdf(file_path, password, pages, fault, uuid, fs, writes, now)
    IN  /\ fs' = out.fs
        /\ writes' = out.writes
        /\ result' = out.result
        /\ events' = out.events
        /\ log' = out.log
        /\ nreq' = nreq + 1
        /\ op' = "read_pdf"
        /\ UNCHANGED <<now, nstart>>

\* One tool call of read_pdf, in the life of the directory: the requests
\* differ in what they stage, and a write of a page file may fail.  The
\* arguments are not recorded (req is kept for the single call of CallSpec).
StagingCall ==
    \E file_path \in StagedPaths, password \in StagedPasswords,
       pages \in StagedPageLists, fault \in StagingFaults, uuid \in UUIDs :
      /\ Call(file_path, password, pages, fault, uuid)
      /\ req' = NoCall

ReadPdf ==
    /\ nreq < MaxRequests
    /\ StagingCall

\* Lines 22-46, run at every start of the process: TEMP_DIR is kept and
\* cleanup_old_files() runs once, with its default argument.
RunCleanup ==
    /\ \E run \in SweepRuns(TxtFiles(fs)) :
         LET out == cleanup_old_files(DefaultMaxAgeHours, fs, run.order, run.fault, now)
         IN  /\ fs' = out.fs
             /\ log' = out.log
    /\ op' = "startup"
    /\ req' = NoCall
    /\ result' = NoCall
    /\ events' = <<>>
    /\ UNCHANGED <<now, writes, nreq>>

\* The process is started again.
Startup ==
    /\ nstart < MaxRestarts
    /\ nstart' = nstart + 1
    /\ RunCleanup

\* Time passes.
Tick ==
    /\ now < MaxTicks * TickSeconds
    /\ now' = now + TickSeconds
    /\ op' = "tick"
    /\ req' = NoCall
    /\ result' = NoCall
    /\ events' = <<>>
    /\ log' = <<>>
    /\ UNCHANGED <<fs, writes, nreq, nstart>>

Next == ReadPdf \/ Startup \/ Tick

Spec == Init /\ [][Next]_vars

\* The life of the artifacts of one call: the call, then time passing and
\* the process started again and again, each start with its sweep.  The code
\* itself sweeps once per start and never while it serves requests, so this
\* is the most sweeping any run of it can get.
OnlyReadPdf ==
    /\ nreq = 0
    /\ StagingCall

Restart ==
    /\ RunCleanup
    /\ UNCHANGED nstart

FairNext == OnlyReadPdf \/ Restart \/ Tick

FairSpec == Init /\ [][FairNext]_vars /\ WF_vars(Tick) /\ WF_vars(Restart)

(***************************************************************************)
(* One call of read_pdf, over all the inputs, on a directory that is empty *)
(* or holds what an earlier call has left.                                 *)
(***************************************************************************)
Leftover ==
    read_pdf("/in/a.pdf", None, None, NoFault,
             CHOOSE u \in UUIDs : SessionId(u) = "3f2a9c1e", EmptyDir, EmptyDir, 0)

CallInit ==
    /\ now = 0
    /\ \E left \in {[fs |-> EmptyDir, writes |-> EmptyDir],
                     [fs |-> Leftover.fs, writes |-> Leftover.writes]} :
         /\ fs = left.fs
         /\ writes = left.writes
    /\ nreq = 0
    /\ nstart = 0
    /\ op = "startup"
    /\ req = NoCall
    /\ result = NoCall
    /\ events = <<>>
    /\ log = <<>>

FirstCall ==
    /\ nreq = 0
    /\ \E file_path \in FilePaths, password \in Passwords, pages \in PageLists,
          fault \in ReadFaults, uuid \in UUIDs :
         /\ Call(file_path, password, pages, fault, uuid)
         /\ req' = [call |-> "read_pdf", file_path |-> file_path,
                    password |-> password, pages |-> pages]

CallNext == FirstCall

CallSpec == CallInit /\ [][CallNext]_vars

(***************************************************************************)
(* What the properties observe.                                            *)
(***************************************************************************)
Last(s) == s[Len(s)]

MaxAgeSeconds == DefaultMaxAgeHours * SecondsPerHour

Age(files, path, t) == t - files[path].mtime

\* The state is the one a call of read_pdf has just left.
Called == op = "read_pdf"

\* The call ended in the except clause.
Raised == events # <<>> /\ Last(events).op = "raise"

EventsOf(name) == SelectSeq(events, LAMBDA e : e.op = name)

\* The document was opened and asked whether it is encrypted.
GateReached == EventsOf("is_encrypted") # <<>>

ReqDoc == Documents[req.file_path]

\* The call met an encrypted document and no password, or a password that
\* decrypt did not accept.
PasswordAbsent ==
    /\ Called /\ GateReached
    /\ ReqDoc.is_encrypted
    /\ req.password = None

PasswordRefused ==
    /\ Called /\ GateReached
    /\ ReqDoc.is_encrypted
    /\ req.password # None
    /\ EventsOf("decrypt") = <<Ev("decrypt", "0")>>

\* C1: an encrypted document asked for without a password, or with one that
\* decrypt does not accept, gets success=false, is_encrypted=true,
\* password_required=true and the text of its case, and the call leaves the
\* directory as it found it: no file created, none written.
C1_PasswordGate ==
    [][/\ PasswordAbsent' =>
            /\ result' = [success |-> FALSE,
                          error |-> "This PDF is password-protected. Please provide a password.",
                          is_encrypted |-> TRUE, password_required |-> TRUE]
            /\ fs' = fs /\ writes' = writes
       /\ PasswordRefused' =>
            /\ result' = [success |-> FALSE,
                          error |-> "Incorrect password or PDF could not be decrypted",
                          is_encrypted |-> TRUE, password_required |-> TRUE]
            /\ fs' = fs /\ writes' = writes]_vars

\* A wrong password was refused on a directory that holds earlier artifacts.
C1_Witness ==
    /\ PasswordRefused
    /\ result.password_required
    /\ DOMAIN fs # {}

\* The page sequence the claim expects of the requested pages.
ExpectedPages ==
    LET total == Len(ReqDoc.pages)
    IN  IF req.pages = None \/ req.pages[1] = <<>>
        THEN [i \in 1..total |-> i]
        ELSE SelectSeq(req.pages[1], LAMBDA p : 1 <= p /\ p <= total)

\* The pages whose text the call asked the reader for, in order.
ExtractedInOrder == [i \in 1..Len(EventsOf("extract_text")) |-> EventsOf("extract_text")[i].arg]

\* The call passed the gate and reached the page count.
Staging == Called /\ EventsOf("len_pages") # <<>>

\* C2: the pages a call extracts are the requested pages within
\* 1..total_pages, in the caller's order and with duplicates kept, or all the
\* pages when none are requested; the metadata file records that sequence;
\* and when no requested page is in range the call succeeds with no pages.
C2_PageSelection ==
    (Staging /\ ~Raised) =>
        /\ result.success
        /\ ExtractedInOrder = [i \in 1..Len(ExpectedPages) |-> ToString(ExpectedPages[i])]
        /\ fs[result.metadata_file].content.json[1].extracted_pages = ExpectedPages
        /\ ExpectedPages = <<>> =>
             /\ result.extracted_pages = <<>>
             /\ result.content_files = <<>>

\* A request for the second page and then the first of a two-page document.
C2_Witness ==
    /\ Staging /\ ~Raised
    /\ req.pages = Some(<<2, 1>>)
    /\ ExtractedInOrder = <<"2", "1">>
    /\ result.extracted_pages = <<2, 1>>

\* The calls that only happen behind the credential gate.
BehindGate == {"metadata", "len_pages", "extract_text", "write"}

\* C6: once the document has been opened, decrypt is called exactly once if
\* it is encrypted and a password is supplied, and not at all otherwise; and
\* for an encrypted document nothing is read or written behind the gate
\* unless decrypt has accepted the password earlier in the same call.
C6_GateOrder ==
    Called =>
        /\ ~GateReached => EventsOf("decrypt") = <<>>
        /\ GateReached =>
             /\ Len(EventsOf("decrypt")) =
                  IF ReqDoc.is_encrypted /\ req.password # None THEN 1 ELSE 0
             /\ ReqDoc.is_encrypted =>
                  \A i \in 1..Len(events) :
                     events[i].op \in BehindGate =>
                        \E j \in 1..(i - 1) : events[j] = Ev("decrypt", "1")

\* An encrypted document is staged after its password was accepted.
C6_Witness ==
    /\ Called /\ GateReached
    /\ ReqDoc.is_encrypted
    /\ EventsOf("decrypt") = <<Ev("decrypt", "1")>>
    /\ EventsOf("write") # <<>>

\* C9: a call in which an exception is raised returns success=false and an
\* error text that ends in the exception's text, and nothing else: no
\* content_files, extracted_pages, metadata_file or session_id.
C9_FaultsAreReported ==
    (Called /\ Raised) =>
        /\ result.success = FALSE
        /\ EndsWith(result.error, Last(events).arg)
        /\ DOMAIN result = {"success", "error"}

\* The exception was raised at the second page, after the first was staged.
C9_Witness ==
    /\ Called /\ Raised
    /\ \E i \in 1..Len(events) :
          /\ events[i].op = "write"
          /\ EndsWith(events[i].arg, ".txt")
          /\ events[i].arg \in DOMAIN fs
          /\ fs[events[i].arg].content.text # ""

\* The files of the directory that are older than the retention window.
Expired(files, t) == {p \in DOMAIN files : Age(files, p, t) > MaxAgeSeconds}

Fresh(files, t) == {p \in DOMAIN files : Age(files, p, t) < MaxAgeSeconds}

\* The sweep that has just run logged no error.
SweptClean ==
    /\ op = "startup"
    /\ \A i \in 1..Len(log) : ~StartsWith(log[i], "Error")

\* C3, as claimed: after a sweep (here: one that met no error), no artifact
\* older than the retention window exists any more, page file or metadata
\* file, and every artifact younger than the window still exists.
C3_AsClaimed ==
    [][SweptClean' =>
          /\ \A p \in Expired(fs, now) : p \notin DOMAIN fs'
          /\ \A p \in Fresh(fs, now) : p \in DOMAIN fs']_vars

\* C4, as claimed: no artifact path is opened for writing more than once.
C4_AsClaimed == \A p \in DOMAIN writes : writes[p] <= 1

\* The session ids of the metadata files in the directory.
SessionIdsIn(files) ==
    {files[p].content.json[1].session_id :
        p \in {q \in DOMAIN files : files[q].content.json # None}}

\* C5, as claimed: a call that reaches staging gets a session id that no
\* earlier call's metadata file carries, and writes no path that an earlier
\* call has written.
C5_AsClaimed ==
    [][(op' = "read_pdf" /\ nreq' = nreq + 1) =>
          /\ \A i \in 1..Len(events') :
                events'[i].op = "write" => events'[i].arg \notin DOMAIN writes
          /\ ("session_id" \in DOMAIN result') =>
                result'.session_id \notin SessionIdsIn(fs)]_vars

\* C7, as claimed: once any artifact is older than the retention window, the
\* directory is eventually free of such artifacts.
C7_AsClaimed == (Expired(fs, now) # {}) ~> (Expired(fs, now) = {})

\* The sweep that has just run logged an exception of a stat or an unlink.
SweptWithFileError ==
    /\ op = "startup"
    /\ log # <<>>
    /\ Last(log) \in {"Error cleaning up old files: fault in stat",
                     "Error cleaning up old files: fault in unlink"}

\* C8, as claimed: when the stat or the unlink of one file fails during a
\* sweep, every other *.txt file older than the window is deleted in that
\* sweep: at most the one file is left of them.
C8_AsClaimed ==
    [][SweptWithFileError' =>
          Cardinality(Expired(fs, now) \cap TxtFiles(fs) \cap DOMAIN fs') <= 1]_vars

\* C10, as claimed: the extracted_pages of a successful result, the
\* extracted_pages of the session's metadata file and the keys of
\* content_files are the same list.
C10_AsClaimed ==
    (Called /\ result.success) =>
        /\ result.extracted_pages = fs[result.metadata_file].content.json[1].extracted_pages
        /\ result.extracted_pages = DictKeys(result.content_files)

====
